---- MODULE Spec2Model ----
(***************************************************************************)
(* The session/transport lifecycle and the tool dispatcher of the          *)
(* healthcare MCP server, in its server variants:                          *)
(*   "sse_query"  : src/server/mcp-server.js  (SSE, id in the query)       *)
(*   "sse_header" : src/unnamed/part_001      (SSE, id in header or query) *)
(*   "stateless"  : src/unnamed/part_000      (a server per POST)          *)
(*   "self"       : src/unnamed/part_002      (one transport for all)      *)
(* Each async handler is cut at its awaits: one action per run-to-await.   *)
(* The TTL cache the variants construct and hand to their tools has its    *)
(* own specification, SpecCache.                                           *)
(***************************************************************************)
EXTENDS Naturals, Sequences, FiniteSets

VARIABLES
  variant,          \* which server file is running
  transports,       \* the session table: Map sessionId -> transport
  chans,            \* every transport constructed, with its GET handler's progress
  serverTransport,  \* the transport the one shared mcpServer is bound to
  posts,            \* every POST request on /mcp, with its handler's progress
  usage,            \* usageService's ledger: Map <<sessionId, name>> -> count
  uncaught,         \* kinds of handler that let an exception escape
  closedIds,        \* history: the ids transports.delete() has been run for
  req,              \* the HTTP request the last step accepted, if it accepted one
  env,              \* process.env.CACHE_TTL as the process was started
  cache,            \* cacheService's store: Map key -> [value, storedAt]
  now,              \* the clock, in seconds
  ticks,            \* how many times the clock has been advanced
  got,              \* the cache read the last step made, with its result
  lastSet           \* history: per key, the value and time of its latest set

serverVars ==
  <<variant, transports, chans, serverTransport, posts, usage, uncaught, closedIds, req>>

cacheVars == <<env, cache, now, ticks, got, lastSet>>

vars == <<serverVars, cacheVars>>

\* ---------------------------------------------------------------- bounds
\* Transports constructed and POSTs accepted, together, in one run.
MaxRequests == 3

\* Advances of the clock in one run.
MaxTicks == 3

\* ---------------------------------------------------------------- values
Variants == {"sse_query", "sse_header", "stateless", "self"}

\* The variants that keep a session table.
SessionKeyed(v) == v \in {"sse_query", "sse_header"}

\* The values randomUUID() can return.
SessionIds == {"A", "B"}
\* url.searchParams.get() of a missing parameter / an absent header.
NoId == "null"
\* A parameter or header that is present with an empty value.
EmptyId == ""
IdInputs == SessionIds \cup {NoId, EmptyId}

\* No transport (undefined).
NoChan == 0

\* req.method and url.pathname of the requests the listener is sent.
Methods == {"GET", "POST", "DELETE", "OPTIONS"}
RpcPath == "/mcp"
Paths == {RpcPath, "/health"}

\* The tool names a request can carry: two that every variant lists, one
\* that only the stateless variant lists, and one that no variant lists.
SyncTool == "calculate_bmi"
AsyncTool == "pubmed_search"
ToolNames == {SyncTool, AsyncTool, "icd_code_lookup", "no_such_tool"}

\* What a collaborator call comes to: it returns (NoError) or it throws an
\* Error with this message.
NoError == ""
ErrorMessages == {"timeout"}
Outcomes == {NoError} \cup ErrorMessages

\* || 86400
DefaultTtl == 86400

\* process.env.CACHE_TTL: not set, or set to the text of a number.
EnvValues == {[set |-> FALSE, n |-> 0], [set |-> TRUE, n |-> 0], [set |-> TRUE, n |-> 2]}

\* The cache keys and values the tools use, and the result of a miss.
Keys == {"k1", "k2"}
Values == {"v1", "v2"}
Absent == "absent"
NoKey == ""

\* How far the clock moves between two steps: a second, or a second less
\* than the default TTL.
TickSizes == {1, DefaultTtl - 1}

\* ---------------------------------------------------------------- Map
MapHas(m, k) == k \in DOMAIN m

MapGet(m, k) == IF k \in DOMAIN m THEN m[k] ELSE NoChan

MapSet(m, k, v) == [x \in DOMAIN m \cup {k} |-> IF x = k THEN v ELSE m[x]]

MapDelete(m, k) == [x \in DOMAIN m \ {k} |-> m[x]]

EmptyMap == [x \in {} |-> NoChan]

\* ---------------------------------------------------------------- dispatcher
\* The five names only the stateless variant lists and dispatches.
StatelessOnlyTools ==
  {"health_topics_search", "icd_code_lookup", "medrxiv_search", "ncbi_bookshelf_search",
   "dicom_extract_metadata"}

\* The names the ListTools handler advertises: the Tool Registry.
ListedTools(v) ==
  {"fda_drug_lookup", "pubmed_search", "calculate_bmi", "clinical_trials_search"}
    \cup (IF v = "stateless" THEN StatelessOnlyTools ELSE {})

\* A switch with the four cases of the other variants in every variant.
SwitchCasesShort(v) ==
  {"fda_drug_lookup", "pubmed_search", "calculate_bmi", "clinical_trials_search"}

\* The names the CallTool switch has a case for.
SwitchCases(v) ==
  {"fda_drug_lookup", "pubmed_search", "calculate_bmi", "clinical_trials_search"}
    \cup (IF v = "stateless" THEN StatelessOnlyTools ELSE {})

KnownTool(v, name) == name \in SwitchCases(v)

\* const sessionId = "streamable-session";
LedgerSessionId(arrivedOn) == "streamable-session"

\* usageService.recordUsage(sessionId, name)
RecordUsage(ledger, sid, name) ==
  LET k == <<sid, name>>
  IN  [x \in DOMAIN ledger \cup {k} |->
         IF x = k THEN (IF k \in DOMAIN ledger THEN ledger[k] + 1 ELSE 1)
         ELSE ledger[x]]

UsageCount(ledger, sid, name) ==
  IF <<sid, name>> \in DOMAIN ledger THEN ledger[<<sid, name>>] ELSE 0

\* The envelopes the handler returns.
SuccessEnvelope == [isError |-> FALSE, text |-> <<"result">>]
ErrorEnvelope(msg) == [isError |-> TRUE, text |-> <<"Error: ">> \o msg]
NoEnvelope == [isError |-> FALSE, text |-> <<>>]

\* A catch that answers with a fixed text instead of error.message.
CaughtGeneric(outcome) ==
  IF outcome = NoError THEN SuccessEnvelope ELSE ErrorEnvelope(<<"internal error">>)

\* try { result = <collaborator call>; return success } catch (error) { return error }
Caught(outcome) ==
  IF outcome = NoError THEN SuccessEnvelope ELSE ErrorEnvelope(<<outcome>>)

UnknownToolMessage(name) == <<"Unknown tool: ", name>>

\* A switch without its default branch: result stays undefined and is returned.
DefaultBranchFallsThrough(name) == SuccessEnvelope

\* What the switch does with a name it has no case for: default: throw,
\* caught by the handler's own catch.
DefaultBranch(name) == ErrorEnvelope(UnknownToolMessage(name))

\* ---------------------------------------------------------------- cache
\* parseInt(process.env.CACHE_TTL) || 86400: NaN and 0 give the default.
CacheTtl(e) == IF e.set /\ e.n # 0 THEN e.n ELSE DefaultTtl

\* The entry of key k has outlived the TTL.
Expired(k) == now - cache[k].storedAt >= CacheTtl(env)

\* A get that returns whatever is stored, however old.
CacheGetNoExpiry(k) ==
  /\ got' = [key |-> k, value |-> IF k \in DOMAIN cache THEN cache[k].value ELSE Absent]
  /\ UNCHANGED <<cache, env, now, ticks, lastSet>>

\* cacheService.get(key): absent when the key was never stored or its
\* entry has expired; an expired entry is removed by the read.
CacheGet(k) ==
  /\ IF k \notin DOMAIN cache
     THEN got' = [key |-> k, value |-> Absent] /\ cache' = cache
     ELSE IF Expired(k)
     THEN got' = [key |-> k, value |-> Absent] /\ cache' = MapDelete(cache, k)
     ELSE got' = [key |-> k, value |-> cache[k].value] /\ cache' = cache
  /\ UNCHANGED <<env, now, ticks, lastSet>>

\* cacheService.set(key, value): stored with storedAt = now, over any entry
\* of the key.
CacheSet(k, v) ==
  /\ cache' = MapSet(cache, k, [value |-> v, storedAt |-> now])
  /\ lastSet' = MapSet(lastSet, k, [value |-> v, storedAt |-> now])
  /\ got' = [key |-> NoKey, value |-> Absent]
  /\ UNCHANGED <<env, now, ticks>>

\* Time passes.
Tick(d) ==
  /\ ticks < MaxTicks
  /\ now' = now + d
  /\ ticks' = ticks + 1
  /\ got' = [key |-> NoKey, value |-> Absent]
  /\ UNCHANGED <<env, cache, lastSet>>

\* ---------------------------------------------------------------- front door
\* The session identifier a POST is looked up under.
SessionIdOf(v, header, query) ==
  IF v = "sse_header"
  THEN (IF header \notin {NoId, EmptyId} THEN header ELSE query)
  ELSE query

RejectStatus(v) == IF v = "sse_header" THEN 401 ELSE 404

\* The status a POST gets once its body is read: 202 Accepted from
\* handlePostMessage, 200 from handleRequest.
AcceptStatus(v) == IF SessionKeyed(v) THEN 202 ELSE 200

\* The rejection test without its transports.has half.
PostRejectedMissingOnly(sid) == sid \in {NoId, EmptyId}

\* if (!sessionId || !transports.has(sessionId))
PostRejected(sid) == sid \in {NoId, EmptyId} \/ ~MapHas(transports, sid)

\* The transport's SSE stream is established: start() ran and the response
\* has not closed since.
Established(c) == c # NoChan /\ chans[c].pc # "failed" /\ ~chans[c].ended

\* The one transport of the self-addressed variant.
SelfChan == 1

\* The transport's own test of a request's mcp-session-id header: 0 when the
\* request passes, else the status it is refused with.
SelfRefusal(h) ==
  IF chans[SelfChan].sid = NoId \/ h \in {NoId, EmptyId} THEN 400
  ELSE IF h # chans[SelfChan].sid THEN 404
  ELSE 0

\* ---------------------------------------------------------------- state
\* The listener accepts a request: the run has requests left (a stateless
\* POST counts for the transport it constructs and for itself).
Accepting == Len(chans) + Len(posts) < MaxRequests

\* The request a step accepted, with the status of the response the step
\* wrote (0: none yet).
Request(method, path, header, query, status) ==
  [method |-> method, path |-> path, header |-> header, query |-> query, status |-> status]

\* The steps that resume a handler or deliver an event accept no request.
NoRequest == Request("", "", NoId, NoId, 0)

\* new CacheService(parseInt(process.env.CACHE_TTL) || 86400): empty.
InitCacheService(e) ==
  /\ env = e
  /\ cache = [x \in {} |-> [value |-> Absent, storedAt |-> 0]]
  /\ now = 0
  /\ ticks = 0
  /\ got = [key |-> NoKey, value |-> Absent]
  /\ lastSet = [x \in {} |-> [value |-> Absent, storedAt |-> 0]]

Init ==
  /\ InitCacheService([set |-> FALSE, n |-> 0])
  /\ variant \in Variants
  /\ transports = EmptyMap
  /\ chans = IF variant = "self"
             THEN <<[sid |-> NoId, pc |-> "connected", ended |-> FALSE]>>
             ELSE <<>>
  /\ serverTransport = IF variant = "self" THEN SelfChan ELSE NoChan
  /\ posts = <<>>
  /\ usage = [x \in {} |-> 0]
  /\ uncaught = {}
  /\ closedIds = {}
  /\ req = NoRequest

\* A GET branch that answers an identifier already in the table with the
\* transport registered under it, constructing none.
GetOpenReuses(id) ==
  /\ SessionKeyed(variant)
  /\ Accepting
  /\ IF MapHas(transports, id)
     THEN UNCHANGED <<transports, chans, serverTransport>>
     ELSE /\ transports' = MapSet(transports, id, Len(chans) + 1)
          /\ chans' = Append(chans, [sid |-> id, pc |-> "connecting", ended |-> FALSE])
          /\ serverTransport' = Len(chans) + 1
  /\ req' = Request("GET", RpcPath, NoId, NoId, 200)
  /\ UNCHANGED <<variant, posts, usage, uncaught, closedIds>>
  /\ UNCHANGED cacheVars

\* GET /mcp up to `await mcpServer.connect(transport)`: randomUUID(), new
\* SSEServerTransport, transports.set, and the synchronous part of connect
\* (the shared server is rebound to this transport, the stream is started).
GetOpen(id) ==
  /\ SessionKeyed(variant)
  /\ Accepting
  /\ transports' = MapSet(transports, id, Len(chans) + 1)
  /\ chans' = Append(chans, [sid |-> id, pc |-> "connecting", ended |-> FALSE])
  /\ serverTransport' = Len(chans) + 1
  /\ req' = Request("GET", RpcPath, NoId, NoId, 200)
  /\ UNCHANGED <<variant, posts, usage, uncaught, closedIds>>
  /\ UNCHANGED cacheVars

\* connect resolves: the handler resumes and registers req.on("close", ...).
\* A 'close' emitted before that is not delivered to the new listener.
ConnectResolves(c) ==
  /\ chans[c].pc = "connecting"
  /\ chans' = [chans EXCEPT ![c].pc = "listening"]
  /\ req' = NoRequest
  /\ UNCHANGED <<variant, transports, serverTransport, posts, usage, uncaught, closedIds>>
  /\ UNCHANGED cacheVars

\* connect rejects: the handler's promise rejects, nothing catches it, and
\* the close listener is never registered.
ConnectRejects(c) ==
  /\ chans[c].pc = "connecting"
  /\ chans' = [chans EXCEPT ![c].pc = "failed"]
  /\ uncaught' = uncaught \cup {"connect"}
  /\ req' = NoRequest
  /\ UNCHANGED <<variant, transports, serverTransport, posts, usage, closedIds>>
  /\ UNCHANGED cacheVars

\* A close listener that uses the entry it removes (transports.get(id).close()):
\* it throws when the entry is gone.
CloseListenerDerefs(c) ==
  /\ transports' = MapDelete(transports, chans[c].sid)
  /\ closedIds' = closedIds \cup {chans[c].sid}
  /\ uncaught' = IF MapHas(transports, chans[c].sid) THEN uncaught ELSE uncaught \cup {"close"}

\* The close listener of channel c: transports.delete(sessionId).
CloseListener(c) ==
  /\ transports' = MapDelete(transports, chans[c].sid)
  /\ closedIds' = closedIds \cup {chans[c].sid}
  /\ uncaught' = uncaught

\* The connection of channel c ends (client disconnect, server close or
\* error): 'close' is emitted once, to the listeners registered by then. The
\* transport's own listener tells the server, which drops its transport.
ConnectionEnds(c) ==
  /\ SessionKeyed(variant)
  /\ ~chans[c].ended
  /\ chans' = [chans EXCEPT ![c].ended = TRUE,
                            ![c].pc = IF chans[c].pc = "listening" THEN "closed" ELSE @]
  /\ IF chans[c].pc = "listening"
     THEN CloseListener(c)
     ELSE UNCHANGED <<transports, closedIds, uncaught>>
  /\ serverTransport' = IF chans[c].pc = "failed" THEN serverTransport ELSE NoChan
  /\ req' = NoRequest
  /\ UNCHANGED <<variant, posts, usage>>
  /\ UNCHANGED cacheVars

\* chan: the transport the POST was handed to (NoChan: none; in the
\* stateless variant the one the POST constructed); resClosed: the response
\* has emitted 'close'; closes: the runs of the cleanup transport.close();
\* server.close() for this request.
NewPost ==
  [chan |-> NoChan, status |-> 0, stage |-> "rejected", name |-> "",
   out |-> NoChan, invoked |-> FALSE, thrown |-> NoError, envelope |-> NoEnvelope,
   resClosed |-> FALSE, closes |-> 0]

\* POST /mcp up to the first await: the lookup, the rejection, or
\* transport.handlePostMessage(req, res) up to its read of the body.
Post(h, q) ==
  /\ SessionKeyed(variant)
  /\ Accepting
  /\ LET sid == SessionIdOf(variant, h, q)
         c == MapGet(transports, sid)
     IN  IF PostRejected(sid)
         THEN /\ posts' = Append(posts, [NewPost EXCEPT !.status = RejectStatus(variant)])
              /\ req' = Request("POST", RpcPath, h, q, RejectStatus(variant))
              /\ UNCHANGED uncaught
         ELSE IF Established(c)
         THEN /\ posts' = Append(posts, [NewPost EXCEPT !.chan = c, !.stage = "reading"])
              /\ req' = Request("POST", RpcPath, h, q, 0)
              /\ UNCHANGED uncaught
         ELSE \* "SSE connection not established": 500, and the throw escapes
              /\ posts' = Append(posts, [NewPost EXCEPT !.chan = c, !.status = 500,
                                                               !.stage = "failed"])
              /\ req' = Request("POST", RpcPath, h, q, 500)
              /\ uncaught' = uncaught \cup {"postMessage"}
  /\ UNCHANGED <<variant, transports, chans, serverTransport, usage, closedIds>>
  /\ UNCHANGED cacheVars

\* POST /mcp of the stateless variant up to `await server.connect(transport)`:
\* createMcpServer() and new StreamableHTTPServerTransport (no session id),
\* both local to this call of the handler.
StatelessPost ==
  /\ variant = "stateless"
  /\ Accepting
  /\ chans' = Append(chans, [sid |-> NoId, pc |-> "perRequest", ended |-> FALSE])
  /\ posts' = Append(posts, [NewPost EXCEPT !.chan = Len(chans) + 1, !.stage = "connecting"])
  /\ req' = Request("POST", RpcPath, NoId, NoId, 0)
  /\ UNCHANGED <<variant, transports, serverTransport, usage, uncaught, closedIds>>
  /\ UNCHANGED cacheVars

\* server.connect resolves and transport.handleRequest runs up to its read
\* of the body, or connect rejects and the catch answers 500.
StatelessConnect(i, ok) ==
  /\ posts[i].stage = "connecting"
  /\ posts' = IF ok THEN [posts EXCEPT ![i].stage = "reading"]
              ELSE [posts EXCEPT ![i].stage = "failed", ![i].status = 500]
  /\ req' = NoRequest
  /\ UNCHANGED <<variant, transports, chans, serverTransport, usage, uncaught, closedIds>>
  /\ UNCHANGED cacheVars

\* transport.handleRequest rejects: the catch answers 500 (the headers are
\* not sent yet) and the handler returns without registering the cleanup.
StatelessHandleRejects(i) ==
  /\ variant = "stateless"
  /\ posts[i].stage = "reading"
  /\ posts' = [posts EXCEPT ![i].stage = "failed", ![i].status = 500]
  /\ req' = NoRequest
  /\ UNCHANGED <<variant, transports, chans, serverTransport, usage, uncaught, closedIds>>
  /\ UNCHANGED cacheVars

\* The handler of a stateless POST has registered res.on("close", ...): it
\* does so when `await transport.handleRequest(req, res)` has resolved.
CleanupRegistered(i) == variant = "stateless" /\ posts[i].stage \in {"awaiting", "done"}

\* The response of a stateless POST emits 'close' (it was ended, or the
\* client went away): once, to the listeners registered by then. The cleanup
\* listener runs transport.close(); server.close().
ResponseCloses(i) ==
  /\ variant = "stateless"
  /\ ~posts[i].resClosed
  /\ posts' = [posts EXCEPT ![i].resClosed = TRUE,
                            ![i].closes = IF CleanupRegistered(i) THEN @ + 1 ELSE @]
  /\ chans' = [chans EXCEPT ![posts[i].chan].ended = CleanupRegistered(i)]
  /\ req' = NoRequest
  /\ UNCHANGED <<variant, transports, serverTransport, usage, uncaught, closedIds>>
  /\ UNCHANGED cacheVars

\* The session a posted message arrived on.
ArrivedOn(i) ==
  IF posts[i].chan \in DOMAIN chans THEN chans[posts[i].chan].sid ELSE NoId

\* The transport the server that handles post i is bound to: the request's
\* own in the stateless variant, the shared server's current one otherwise.
BoundTransport(i) == IF variant = "stateless" THEN posts[i].chan ELSE serverTransport

\* The CallTool handler from its start to its first await or its return:
\* recordUsage, then the switch. hasArgs: the request carries arguments;
\* outcome: what the call of a synchronous tool comes to.
CallTool(i, name, hasArgs, outcome) ==
  /\ usage' = RecordUsage(usage, LedgerSessionId(ArrivedOn(i)), name)
  /\ IF ~KnownTool(variant, name)
     THEN posts' = [posts EXCEPT ![i].status = AcceptStatus(variant), ![i].name = name,
                                 ![i].stage = "done", ![i].out = BoundTransport(i),
                                 ![i].envelope = DefaultBranch(name)]
     ELSE IF ~hasArgs
     THEN \* args.<field> of undefined throws inside the try
          posts' = [posts EXCEPT ![i].status = AcceptStatus(variant), ![i].name = name,
                                 ![i].stage = "done", ![i].out = BoundTransport(i),
                                 ![i].envelope = ErrorEnvelope(<<"TypeError">>)]
     ELSE IF name = SyncTool
     THEN posts' = [posts EXCEPT ![i].status = AcceptStatus(variant), ![i].name = name,
                                 ![i].stage = "done", ![i].out = BoundTransport(i),
                                 ![i].invoked = TRUE, ![i].thrown = outcome,
                                 ![i].envelope = Caught(outcome)]
     ELSE posts' = [posts EXCEPT ![i].status = AcceptStatus(variant), ![i].name = name,
                                 ![i].stage = "awaiting", ![i].out = BoundTransport(i),
                                 ![i].invoked = TRUE]

\* handlePostMessage / handleRequest resumes with the body read: the status
\* is written and the message goes to the server the transport was connected to.
HandleMessage(i, name, hasArgs, outcome) ==
  /\ posts[i].stage = "reading"
  /\ CallTool(i, name, hasArgs, outcome)
  /\ req' = NoRequest
  /\ UNCHANGED <<variant, transports, chans, serverTransport, uncaught, closedIds>>
  /\ UNCHANGED cacheVars

\* The awaited collaborator settles; the envelope is sent through the
\* server's transport (the one captured when the request arrived, or the
\* current one, by SDK version).
CollaboratorSettles(i, outcome, useCaptured) ==
  /\ posts[i].stage = "awaiting"
  /\ posts' = [posts EXCEPT ![i].stage = "done",
                            ![i].out = IF useCaptured THEN posts[i].out ELSE BoundTransport(i),
                            ![i].thrown = outcome,
                            ![i].envelope = Caught(outcome)]
  /\ req' = NoRequest
  /\ UNCHANGED <<variant, transports, chans, serverTransport, usage, uncaught, closedIds>>
  /\ UNCHANGED cacheVars

\* The OPTIONS branch: 204. The SSE variants test the method before the
\* path; the stateless variant tests it inside the /mcp block.
Preflight(path) ==
  /\ Accepting
  /\ SessionKeyed(variant) \/ (variant = "stateless" /\ path = RpcPath)
  /\ req' = Request("OPTIONS", path, NoId, NoId, 204)
  /\ UNCHANGED <<variant, transports, chans, serverTransport, posts, usage, uncaught, closedIds>>
  /\ UNCHANGED cacheVars

\* The stateless variant's GET/DELETE branch: 405 "Method not allowed."
MethodNotAllowed(method) ==
  /\ Accepting
  /\ variant = "stateless"
  /\ method \in {"GET", "DELETE"}
  /\ req' = Request(method, RpcPath, NoId, NoId, 405)
  /\ UNCHANGED <<variant, transports, chans, serverTransport, posts, usage, uncaught, closedIds>>
  /\ UNCHANGED cacheVars

\* The request reaches the handler's last statement.
FallsThrough(v, method, path) ==
  IF SessionKeyed(v) THEN method # "OPTIONS" /\ (path # RpcPath \/ method \notin {"GET", "POST"})
  ELSE path # RpcPath

\* res.writeHead(404); res.end("Not Found")
NotFound(method, path) ==
  /\ Accepting
  /\ FallsThrough(variant, method, path)
  /\ req' = Request(method, path, NoId, NoId, 404)
  /\ UNCHANGED <<variant, transports, chans, serverTransport, posts, usage, uncaught, closedIds>>
  /\ UNCHANGED cacheVars

\* Self-addressed variant with a transport made and connected again on an
\* initialize request.
SelfInitializeReconnects(id) ==
  /\ Accepting
  /\ variant = "self"
  /\ chans' = Append(chans, [sid |-> id, pc |-> "connected", ended |-> FALSE])
  /\ serverTransport' = Len(chans')
  /\ req' = Request("POST", RpcPath, NoId, NoId, 200)
  /\ UNCHANGED <<variant, transports, posts, usage, uncaught, closedIds>>
  /\ UNCHANGED cacheVars

\* Self-addressed variant, transport.handleRequest on a POST that carries
\* an initialize request: the transport takes sessionIdGenerator() as its
\* session id, once.
SelfInitialize(id) ==
  /\ Accepting
  /\ variant = "self"
  /\ IF chans[SelfChan].sid = NoId
     THEN /\ chans' = [chans EXCEPT ![SelfChan].sid = id]
          /\ req' = Request("POST", RpcPath, NoId, NoId, 200)
     ELSE /\ chans' = chans
          /\ req' = Request("POST", RpcPath, NoId, NoId, 400)
  /\ UNCHANGED <<variant, transports, serverTransport, posts, usage, uncaught, closedIds>>
  /\ UNCHANGED cacheVars

\* Self-addressed variant, transport.handleRequest on a POST that carries a
\* call: refused by the session test, or taken up to the read of its body.
SelfPost(h) ==
  /\ variant = "self"
  /\ Accepting
  /\ posts' = IF SelfRefusal(h) # 0
              THEN Append(posts, [NewPost EXCEPT !.chan = SelfChan, !.status = SelfRefusal(h)])
              ELSE Append(posts, [NewPost EXCEPT !.chan = SelfChan, !.stage = "reading"])
  /\ req' = Request("POST", RpcPath, h, NoId, SelfRefusal(h))
  /\ UNCHANGED <<variant, transports, chans, serverTransport, usage, uncaught, closedIds>>
  /\ UNCHANGED cacheVars

\* Self-addressed variant, transport.handleRequest on a GET: the session
\* test, then the standalone event stream of the one transport.
SelfGet(h) ==
  /\ Accepting
  /\ variant = "self"
  /\ req' = Request("GET", RpcPath, h, NoId, IF SelfRefusal(h) # 0 THEN SelfRefusal(h) ELSE 200)
  /\ UNCHANGED <<variant, transports, chans, serverTransport, posts, usage, uncaught, closedIds>>
  /\ UNCHANGED cacheVars

\* Self-addressed variant, transport.handleRequest on a DELETE: the session
\* test, then the transport closes itself (session termination) and the
\* server it is connected to drops it.
SelfDelete(h) ==
  /\ Accepting
  /\ variant = "self"
  /\ IF SelfRefusal(h) # 0
     THEN /\ UNCHANGED <<chans, serverTransport>>
          /\ req' = Request("DELETE", RpcPath, h, NoId, SelfRefusal(h))
     ELSE /\ chans' = [chans EXCEPT ![SelfChan].ended = TRUE, ![SelfChan].pc = "terminated"]
          /\ serverTransport' = NoChan
          /\ req' = Request("DELETE", RpcPath, h, NoId, 200)
  /\ UNCHANGED <<variant, transports, posts, usage, uncaught, closedIds>>
  /\ UNCHANGED cacheVars

\* Self-addressed variant, transport.handleRequest on any other method: 405.
SelfUnsupported ==
  /\ Accepting
  /\ variant = "self"
  /\ req' = Request("OPTIONS", RpcPath, NoId, NoId, 405)
  /\ UNCHANGED <<variant, transports, chans, serverTransport, posts, usage, uncaught, closedIds>>
  /\ UNCHANGED cacheVars

Next ==
  \/ \E id \in SessionIds : GetOpen(id)
  \/ \E c \in DOMAIN chans : ConnectResolves(c)
  \/ \E c \in DOMAIN chans : ConnectRejects(c)
  \/ \E c \in DOMAIN chans : ConnectionEnds(c)
  \/ \E h \in IdInputs, q \in IdInputs : Post(h, q)
  \/ StatelessPost
  \/ \E i \in DOMAIN posts, ok \in BOOLEAN : StatelessConnect(i, ok)
  \/ \E i \in DOMAIN posts : StatelessHandleRejects(i)
  \/ \E i \in DOMAIN posts : ResponseCloses(i)
  \/ \E i \in DOMAIN posts, name \in ToolNames, hasArgs \in BOOLEAN, outcome \in Outcomes :
       HandleMessage(i, name, hasArgs, outcome)
  \/ \E i \in DOMAIN posts, outcome \in Outcomes, useCaptured \in BOOLEAN :
       CollaboratorSettles(i, outcome, useCaptured)
  \/ \E path \in Paths : Preflight(path)
  \/ \E method \in Methods : MethodNotAllowed(method)
  \/ \E method \in Methods, path \in Paths : NotFound(method, path)
  \/ \E id \in SessionIds : SelfInitialize(id)
  \/ \E h \in IdInputs : SelfPost(h)
  \/ \E h \in IdInputs : SelfGet(h)
  \/ \E h \in IdInputs : SelfDelete(h)
  \/ SelfUnsupported

Spec == Init /\ [][Next]_vars

\* The cache on its own: the server is at rest in the state it starts in
\* while the tools read and write the cache and time passes.
InitCache ==
  /\ \E e \in EnvValues : InitCacheService(e)
  /\ variant = "sse_query"
  /\ transports = EmptyMap
  /\ chans = <<>>
  /\ serverTransport = NoChan
  /\ posts = <<>>
  /\ usage = [x \in {} |-> 0]
  /\ uncaught = {}
  /\ closedIds = {}
  /\ req = NoRequest

GetStep(k) == CacheGet(k) /\ UNCHANGED serverVars

SetStep(k, v) == CacheSet(k, v) /\ UNCHANGED serverVars

TickStep(d) == Tick(d) /\ UNCHANGED serverVars

NextCache ==
  \/ \E k \in Keys : GetStep(k)
  \/ \E k \in Keys, v \in Values : SetStep(k, v)
  \/ \E d \in TickSizes : TickStep(d)

SpecCache == InitCache /\ [][NextCache]_vars

\* ---------------------------------------------------------------- claims
\* The step just taken accepted a POST and appended its record.
PostStep == req'.method = "POST" /\ Len(posts') = Len(posts) + 1

\* The step just taken accepted a GET and constructed a transport.
OpenStep == Len(chans') = Len(chans) + 1

\* Post i has reached the dispatcher.
Dispatched(i) == posts[i].stage \in {"awaiting", "done"}

\* C1: in the variants that keep a session table, a POST none of whose
\* identifiers (header, query) is in the session table, or that carries
\* none, is answered 4xx, is forwarded to no transport, and leaves the
\* session table and every transport as they were.
C1_UnknownSessionRejected ==
  [][(/\ SessionKeyed(variant) /\ PostStep
      /\ \A x \in {req'.header, req'.query} : ~MapHas(transports, x))
       => /\ posts'[Len(posts')].status \in 400..499
          /\ posts'[Len(posts')].stage = "rejected"
          /\ posts'[Len(posts')].chan = NoChan
          /\ transports' = transports
          /\ chans' = chans
          /\ serverTransport' = serverTransport]_vars

C1_Witness ==
  /\ req.method = "POST"
  /\ req.query \in SessionIds
  /\ ~MapHas(transports, req.query)
  /\ DOMAIN transports # {}
  /\ posts[Len(posts)].stage = "rejected"

\* C2: once transports.delete(s) has run for an identifier s, s is never
\* in the session table again.
C2_ClosedIsTerminal == \A s \in closedIds : ~MapHas(transports, s)

\* C3: a channel whose connection has ended and whose GET handler is no
\* longer awaiting connect has no entry left in the session table.
C3_EndedChannelRemoved ==
  \A c \in DOMAIN chans :
    (chans[c].ended /\ chans[c].pc # "connecting") => MapGet(transports, chans[c].sid) # c

\* C4: an open registers its transport under an identifier that is not in
\* the session table, and leaves every mapping that was there as it was.
C4_OpenUsesFreshId ==
  [][OpenStep
       => /\ ~MapHas(transports, chans'[Len(chans')].sid)
          /\ \A s \in DOMAIN transports : MapGet(transports', s) = transports[s]]_vars

\* C5: in the variants that keep a session table, the response to a
\* dispatched message is written through the transport the message was
\* posted to.
C5_ResponseOnOwnChannel ==
  SessionKeyed(variant) =>
    \A i \in DOMAIN posts : posts[i].stage = "done" => posts[i].out = posts[i].chan

\* C6: a close listener that runs for an identifier already removed from
\* the session table raises nothing and leaves the session table, and so
\* every other session's transport, as it was.
C6_SecondCloseIsNoOp ==
  [][\A c \in DOMAIN chans :
       (/\ chans[c].pc = "listening" /\ chans'[c].pc = "closed"
        /\ chans[c].sid \in closedIds /\ ~MapHas(transports, chans[c].sid))
       => (transports' = transports /\ uncaught' = uncaught)]_vars

C6_Witness ==
  \E c \in DOMAIN chans, d \in DOMAIN chans :
    /\ c # d /\ chans[c].sid = chans[d].sid
    /\ chans[c].pc = "closed" /\ chans[d].pc = "closed"

\* C7: a call whose name the tool listing does not hold ends with the error
\* envelope "Error: Unknown tool: <name>", never with a result, a pending
\* collaborator call or an escaped exception.
C7_UnknownToolErrorEnvelope ==
  \A i \in DOMAIN posts :
    (Dispatched(i) /\ posts[i].name \notin ListedTools(variant))
      => /\ posts[i].stage = "done"
         /\ posts[i].envelope = [isError |-> TRUE,
                                  text |-> <<"Error: ", "Unknown tool: ", posts[i].name>>]
         /\ "dispatch" \notin uncaught

C7_Witness ==
  \E i \in DOMAIN posts :
    /\ posts[i].stage = "done"
    /\ posts[i].name \notin ListedTools(variant)
    /\ posts[i].envelope.isError

\* C8: a call whose name the tool listing does not hold invokes no
\* collaborator and leaves no count in the usage ledger.
C8_UnknownToolNotRecorded ==
  /\ \A i \in DOMAIN posts :
       (Dispatched(i) /\ posts[i].name \notin ListedTools(variant)) => ~posts[i].invoked
  /\ \A k \in DOMAIN usage : k[2] \in ListedTools(variant)

\* C9: in the variants that keep a session table, for every session and
\* listed tool, the ledger count of the pair is the number of calls of that
\* tool that arrived on that session and reached the dispatcher.
C9_CountIsNumberOfCalls ==
  SessionKeyed(variant) =>
    \A s \in SessionIds, n \in ListedTools(variant) :
      UsageCount(usage, s, n) =
        Cardinality({i \in DOMAIN posts :
                       Dispatched(i) /\ posts[i].name = n /\ ArrivedOn(i) = s})

\* C10: in the variants that keep a session table, every pair counted in
\* the ledger is the pair of a session and a tool of a call that arrived on
\* that session.
C10_KeyedByArrivalSession ==
  SessionKeyed(variant) =>
    \A k \in DOMAIN usage :
      \E i \in DOMAIN posts : Dispatched(i) /\ ArrivedOn(i) = k[1] /\ posts[i].name = k[2]

\* C11: every dispatched call that has returned carries one envelope, which
\* is either the success payload or an error payload "Error: <message>",
\* never both and never neither. A collaborator that threw gives the error
\* envelope with the message it threw, one that returned gives the success
\* envelope, and the error envelope has the shape of the unknown-tool one.
C11_OneEnvelopeEitherOr ==
  \A i \in DOMAIN posts :
    posts[i].stage = "done" =>
      /\ posts[i].envelope.isError <=> posts[i].envelope.text # <<"result">>
      /\ posts[i].envelope.isError =>
           (Len(posts[i].envelope.text) >= 2 /\ posts[i].envelope.text[1] = "Error: ")
      /\ (posts[i].invoked /\ posts[i].thrown \in ErrorMessages) =>
           posts[i].envelope = [isError |-> TRUE, text |-> <<"Error: ", posts[i].thrown>>]
      /\ (posts[i].invoked /\ posts[i].thrown = NoError) =>
           posts[i].envelope = [isError |-> FALSE, text |-> <<"result">>]
      /\ DOMAIN posts[i].envelope = DOMAIN DefaultBranch(posts[i].name)

C11_Witness ==
  \E i \in DOMAIN posts, j \in DOMAIN posts :
    /\ posts[i].stage = "done" /\ posts[i].name = AsyncTool /\ posts[i].thrown = "timeout"
    /\ posts[j].stage = "done" /\ posts[j].invoked /\ posts[j].thrown = NoError

\* C12: a failure of a transport during connect or while a posted message
\* is handled is caught inside the request handler: no exception escapes it,
\* and the failed transport's entry is removed from the session table.
C12_ChannelFailureContained ==
  /\ uncaught \cap {"connect", "postMessage"} = {}
  /\ \A c \in DOMAIN chans :
       chans[c].pc = "failed" => MapGet(transports, chans[c].sid) # c

\* A POST whose handling has started and has not finished.
Pending(i) == posts[i].stage \in {"reading", "awaiting"}

\* C13: in the variants that keep a session table, a POST that is pending
\* when the connection of its session's transport has ended finishes with an
\* error: an error status, or at least an error envelope; it does not finish
\* as an accepted, successful call.
C13_PendingPostFailsOnClose ==
  [][\A i \in DOMAIN posts :
       (/\ SessionKeyed(variant)
        /\ Pending(i) /\ posts[i].chan # NoChan /\ chans[posts[i].chan].ended
        /\ ~Pending(i)')
       => (posts'[i].status \in 400..599 \/ posts'[i].envelope.isError)]_vars

\* C14: in the stateless variant every POST has a transport of its own,
\* shared with no other POST, and the server and transport a POST created
\* are closed exactly once after the call: once the handler has returned
\* (response written, or the catch has answered) and the response has closed,
\* the cleanup has run once, whether connect or handling failed or the
\* response closed before handling returned.
C14_StatelessClosedOnce ==
  variant = "stateless" =>
    \A i \in DOMAIN posts :
      /\ \A j \in DOMAIN posts : posts[j].chan = posts[i].chan => j = i
      /\ (posts[i].stage \in {"done", "failed"} /\ posts[i].resClosed)
           => (posts[i].closes = 1 /\ chans[posts[i].chan].ended)

\* C15, read on the order in which the POSTs reached the listener: of two
\* POSTs handed to the same transport and both awaiting their body, the
\* later one is not dispatched while the earlier one still waits.
C15_HandledInArrivalOrder ==
  [][\A i \in DOMAIN posts, j \in DOMAIN posts :
       (/\ SessionKeyed(variant) /\ i < j /\ posts[i].chan = posts[j].chan
        /\ posts[i].stage = "reading" /\ posts[j].stage = "reading")
       => ~(posts'[j].stage # "reading" /\ posts'[i].stage = "reading")]_vars

\* The identifier the interface names for a POST: the header when it is
\* there, the query parameter otherwise.
ClaimedId(header, query) == IF header \notin {NoId, EmptyId} THEN header ELSE query

\* C16: in the variants that keep a session table, a POST is looked up
\* under its header identifier when it carries one and under its query
\* identifier only when it carries no header: it is rejected exactly when
\* that identifier is missing or not in the table, and is otherwise handed
\* to the transport registered under that identifier.
C16_HeaderBeforeQuery ==
  [][(SessionKeyed(variant) /\ PostStep)
       => LET sid == ClaimedId(req'.header, req'.query)
              p == posts'[Len(posts')]
          IN  IF sid \in {NoId, EmptyId} \/ ~MapHas(transports, sid)
              THEN p.stage = "rejected"
              ELSE p.chan = transports[sid]]_vars

\* C17: a DELETE on /mcp is answered with a 4xx status and leaves the
\* session table, every transport, the server's binding and every pending
\* request as they were, in every variant.
C17_DeleteRejected ==
  [][(req'.method = "DELETE" /\ req'.path = RpcPath)
       => /\ req'.status \in 400..499
          /\ transports' = transports
          /\ chans' = chans
          /\ serverTransport' = serverTransport
          /\ posts' = posts]_vars

\* C18: a GET on /mcp is answered 405 in the stateless variant, where it
\* constructs no transport and no server and changes nothing; in the
\* variants that keep a session table it constructs one new transport and
\* registers it in the table under the identifier randomUUID() returned,
\* leaving the transports constructed before as they were.
C18_GetByMode ==
  [][(req'.method = "GET" /\ req'.path = RpcPath)
       => /\ variant = "stateless"
               => /\ req'.status = 405
                  /\ posts' = posts
                  /\ chans' = chans
                  /\ transports' = transports
                  /\ serverTransport' = serverTransport
          /\ SessionKeyed(variant)
               => /\ Len(chans') = Len(chans) + 1
                  /\ SubSeq(chans', 1, Len(chans)) = chans
                  /\ chans'[Len(chans')].sid \in SessionIds
                  /\ MapGet(transports', chans'[Len(chans')].sid) = Len(chans')
                  /\ posts' = posts]_vars

C18_Witness ==
  /\ SessionKeyed(variant)
  /\ req.method = "GET" /\ req.path = RpcPath
  /\ Len(chans) = 2
  /\ chans[1].sid = chans[2].sid
  /\ MapGet(transports, chans[2].sid) = 2

\* C19: a request to a path other than /mcp is answered 404, whatever its
\* method, in every variant.
C19_OtherPathNotFound ==
  [][(req'.method # "" /\ req'.path # RpcPath) => req'.status = 404]_vars

\* C20: a get(k) returns the value of the latest set(k, v) when less than
\* ttl seconds have passed since that set, and absent when ttl seconds or
\* more have passed or k was never set, whether or not anything was written
\* in between: no expired value is ever returned.
C20_FreshUntilTtl ==
  got.key # NoKey =>
    got.value = IF got.key \in DOMAIN lastSet
                   /\ now - lastSet[got.key].storedAt < CacheTtl(env)
                THEN lastSet[got.key].value
                ELSE Absent

C20_Witness ==
  /\ got.key \in DOMAIN lastSet
  /\ got.value = Absent
  /\ CacheTtl(env) = DefaultTtl
  /\ now - lastSet[got.key].storedAt = DefaultTtl

\* The close listener of channel c runs in the step just taken.
ListenerRuns(c) == chans[c].pc = "listening" /\ chans'[c].pc = "closed"

\* C21: in the variants that keep a session table, a step changes the table
\* only by an open, which adds exactly one entry (a key that was not there,
\* mapped to the transport just constructed), or by the close listener of a
\* channel, which removes exactly the entry of that channel; a POST, an
\* OPTIONS, a DELETE and a request to another path leave it unchanged.
C21_TableChangesByOpenAndClose ==
  [][SessionKeyed(variant) =>
       /\ \/ transports' = transports
          \/ /\ OpenStep
             /\ ~MapHas(transports, chans'[Len(chans')].sid)
             /\ transports' = MapSet(transports, chans'[Len(chans')].sid, Len(chans'))
          \/ \E c \in DOMAIN chans :
               /\ ListenerRuns(c)
               /\ MapGet(transports, chans[c].sid) = c
               /\ transports' = MapDelete(transports, chans[c].sid)
       /\ (req'.method \in {"POST", "OPTIONS", "DELETE"} \/ req'.path \notin {"", RpcPath})
            => transports' = transports]_vars

\* The part of C21 that does not depend on the identifiers being new: the
\* table is written only by the GET branch (one key set) and by a close
\* listener (its own key deleted); every other request leaves it unchanged.
C21_OnlyOpenAndCloseWrite ==
  [][SessionKeyed(variant) =>
       /\ \/ transports' = transports
          \/ OpenStep /\ transports' = MapSet(transports, chans'[Len(chans')].sid, Len(chans'))
          \/ \E c \in DOMAIN chans :
               ListenerRuns(c) /\ transports' = MapDelete(transports, chans[c].sid)
       /\ (req'.method \in {"POST", "OPTIONS", "DELETE"} \/ req'.path \notin {"", RpcPath})
            => transports' = transports]_vars

\* C22: in the self-addressed variant there is one transport from the start
\* to the end: it exists and is connected to the server before any request
\* is handled, every call posted on the RPC path is handed to it, no step
\* makes another transport, and the server is never bound to a transport
\* again (the only change of the binding is its loss).
C22_OneChannelForLife ==
  /\ [](variant = "self" =>
          /\ Len(chans) = 1
          /\ serverTransport \in {SelfChan, NoChan}
          /\ \A i \in DOMAIN posts : posts[i].chan = SelfChan
          /\ (req = NoRequest /\ posts = <<>> /\ chans[SelfChan].sid = NoId)
               => (chans[SelfChan].pc = "connected" /\ serverTransport = SelfChan))
  /\ [][variant = "self" =>
          /\ Len(chans') = Len(chans)
          /\ serverTransport' # serverTransport => serverTransport' = NoChan]_vars

\* Two calls were handled to their end on the one transport of the
\* self-addressed variant after it took its session id.
C22_Witness ==
  /\ variant = "self"
  /\ Len(chans) = 1
  /\ chans[SelfChan].sid \in SessionIds
  /\ Len(posts) = 2
  /\ \A i \in DOMAIN posts : posts[i].chan = SelfChan /\ posts[i].stage = "done"

\* The identifier a POST carries in the place where the variant announces
\* it: the query of the endpoint URL, or the X-Mcp-Session-Id header.
AnnouncedIn(v, header, query) == IF v = "sse_query" THEN query ELSE header

\* C23: in the variants that keep a session table, the identifier a GET
\* announces is the key under which its transport is in the table when the
\* handshake starts, and a POST that carries the announced identifier of a
\* channel whose connection has not ended is not rejected.
C23_AnnouncedIdAccepted ==
  [][SessionKeyed(variant) =>
       /\ OpenStep =>
            /\ chans'[Len(chans')].pc = "connecting"
            /\ MapHas(transports', chans'[Len(chans')].sid)
            /\ MapGet(transports', chans'[Len(chans')].sid) = Len(chans')
       /\ (/\ PostStep
           /\ \E c \in DOMAIN chans :
                /\ ~chans[c].ended
                /\ chans[c].sid = AnnouncedIn(variant, req'.header, req'.query))
            => posts'[Len(posts')].stage # "rejected"]_vars

\* The part of C23 that does not depend on the identifiers being new: the
\* transport is in the table under the announced identifier when the
\* handshake starts, and a POST that carries the announced identifier of a
\* channel whose connection has not ended is not rejected when no other
\* channel was given the same identifier.
C23_RegisteredBeforeHandshake ==
  [][SessionKeyed(variant) =>
       /\ OpenStep =>
            /\ chans'[Len(chans')].pc = "connecting"
            /\ MapHas(transports', chans'[Len(chans')].sid)
            /\ MapGet(transports', chans'[Len(chans')].sid) = Len(chans')
       /\ (/\ PostStep
           /\ \E c \in DOMAIN chans :
                /\ ~chans[c].ended
                /\ chans[c].sid = AnnouncedIn(variant, req'.header, req'.query)
                /\ \A d \in DOMAIN chans : chans[d].sid = chans[c].sid => d = c)
            => posts'[Len(posts')].stage # "rejected"]_vars


\* ---- The request handlers as ordered branches ----

\* What a call of the handler comes to where it awaits a transport: the
\* session of a POST is not in the table ("unknown"), the transport handled
\* the request, or the awaited call threw after or before the response
\* headers were sent.
HandlerOutcomes == {"unknown", "handled", "threwSent", "threwUnsent"}

\* The response is passed to a transport (new SSEServerTransport(.., res),
\* handlePostMessage(req, res), handleRequest(req, res)) instead of being
\* ended by the handler.
HandedOver == 0

\* One branch of a handler: the requests it takes, what it does with the
\* response (a status it ends the response with, or HandedOver) and whether
\* the handler is left after it.
Branch(methods, paths, outcomes, write, returns) ==
  [methods |-> methods, paths |-> paths, outcomes |-> outcomes,
   write |-> write, returns |-> returns]

\* The handler of the two variants that keep a session table.
SseBranches(v) ==
  << Branch({"OPTIONS"}, Paths, HandlerOutcomes, 204, TRUE),
     Branch({"GET"}, {RpcPath}, HandlerOutcomes, HandedOver, TRUE),
     Branch({"POST"}, {RpcPath}, {"unknown"}, RejectStatus(v), TRUE),
     Branch({"POST"}, {RpcPath}, HandlerOutcomes, HandedOver, TRUE),
     Branch(Methods, Paths, HandlerOutcomes, 404, TRUE) >>

\* The handler of the stateless variant: the try, its catch with the
\* headersSent test, 405, the preflight, 404.
StatelessBranches ==
  << Branch({"POST"}, {RpcPath}, HandlerOutcomes \ {"threwUnsent"}, HandedOver, TRUE),
     Branch({"POST"}, {RpcPath}, {"threwUnsent"}, 500, TRUE),
     Branch({"GET", "DELETE"}, {RpcPath}, HandlerOutcomes, 405, TRUE),
     Branch({"OPTIONS"}, {RpcPath}, HandlerOutcomes, 204, TRUE),
     Branch(Methods, Paths, HandlerOutcomes, 404, TRUE) >>

\* The handler of the self-addressed variant with the return after
\* transport.handleRequest left out.
SelfBranchesNoReturn ==
  << Branch(Methods, {RpcPath}, HandlerOutcomes, HandedOver, FALSE),
     Branch(Methods, Paths, HandlerOutcomes, 404, TRUE) >>

\* The handler of the self-addressed variant.
SelfBranches ==
  << Branch(Methods, {RpcPath}, HandlerOutcomes, HandedOver, TRUE),
     Branch(Methods, Paths, HandlerOutcomes, 404, TRUE) >>

\* The handler of variant v.
HandlerBranches(v) ==
  CASE SessionKeyed(v) -> SseBranches(v)
    [] v = "stateless" -> StatelessBranches
    [] OTHER -> SelfBranches

\* What the handler does with the response from branch k on: the branches
\* are tried in order, and a branch that returns ends the walk.
RECURSIVE Walk(_, _, _, _, _)
Walk(b, k, method, path, o) ==
  IF k > Len(b) THEN <<>>
  ELSE IF method \in b[k].methods /\ path \in b[k].paths /\ o \in b[k].outcomes
       THEN <<b[k].write>> \o (IF b[k].returns THEN <<>> ELSE Walk(b, k + 1, method, path, o))
       ELSE Walk(b, k + 1, method, path, o)

\* Everything one call of the handler of variant v does with the response.
HandlerWrites(v, method, path, o) == Walk(HandlerBranches(v), 1, method, path, o)

\* The outcomes the request accepted by the last step can come to.
LastOutcomes ==
  IF /\ SessionKeyed(variant) /\ req.method = "POST" /\ req.path = RpcPath
     /\ posts[Len(posts)].stage = "rejected"
  THEN {"unknown"}
  ELSE HandlerOutcomes \ {"unknown"}

\* C24: every accepted request gets one response. Whatever the awaited
\* transport comes to, the handler either ends the response once, with the
\* status the request is answered with, or hands it to a transport once,
\* never both and never neither; the 500 of a failed stateless POST is the
\* one the catch writes; and the status of a posted message, once written,
\* is never written again.
C24_ExactlyOneResponse ==
  /\ [](/\ req # NoRequest =>
             \A o \in LastOutcomes :
                LET w == HandlerWrites(variant, req.method, req.path, o)
                IN  /\ Len(w) = 1
                    /\ (w[1] # HandedOver /\ o # "threwUnsent") => w[1] = req.status
         /\ \A i \in DOMAIN posts :
              (variant = "stateless" /\ posts[i].stage = "failed")
                => <<posts[i].status>> = HandlerWrites(variant, "POST", RpcPath, "threwUnsent"))
  /\ [][\A i \in DOMAIN posts :
          posts[i].status # 0 => posts'[i].status = posts[i].status]_vars

\* A stateless POST was answered 500 by the catch and its response has
\* closed, and a later request was answered by the handler itself.
C24_Witness ==
  /\ variant = "stateless"
  /\ req.status \in {204, 404, 405}
  /\ \E i \in DOMAIN posts :
       posts[i].stage = "failed" /\ posts[i].status = 500 /\ posts[i].resClosed


\* ---- The collaborators behind the switch ----

\* const tools = [ new FDATool(cacheService), ... ]: the classes in the
\* order of the array.
Tools ==
  << "FDATool", "PubMedTool", "HealthTopicsTool", "ClinicalTrialsTool",
     "MedicalTerminologyTool", "MedRxivTool", "MedicalCalculatorTool",
     "NcbiBookshelfTool", "DicomTool" >>

NoTool == "none"

\* The index into tools that the case of a name uses (tools[0], tools[6], ...).
CaseIndex(name) ==
  CASE name = "fda_drug_lookup" -> 0
    [] name = "pubmed_search" -> 1
    [] name = "calculate_bmi" -> 6
    [] name = "clinical_trials_search" -> 3
    [] name = "health_topics_search" -> 2
    [] name = "icd_code_lookup" -> 4
    [] name = "medrxiv_search" -> 5
    [] name = "ncbi_bookshelf_search" -> 7
    [] name = "dicom_extract_metadata" -> 8

\* The collaborator the switch of variant v calls for a name, none in the
\* default branch.
Collaborator(v, name) == IF KnownTool(v, name) THEN Tools[CaseIndex(name) + 1] ELSE NoTool

\* The kind of collaborator an operation name stands for.
OwnKind(name) ==
  CASE name = "fda_drug_lookup" -> "FDATool"
    [] name = "pubmed_search" -> "PubMedTool"
    [] name = "calculate_bmi" -> "MedicalCalculatorTool"
    [] name = "clinical_trials_search" -> "ClinicalTrialsTool"
    [] name = "health_topics_search" -> "HealthTopicsTool"
    [] name = "icd_code_lookup" -> "MedicalTerminologyTool"
    [] name = "medrxiv_search" -> "MedRxivTool"
    [] name = "ncbi_bookshelf_search" -> "NcbiBookshelfTool"
    [] name = "dicom_extract_metadata" -> "DicomTool"

\* C25: in every variant the names the listing advertises are the names the
\* switch has a case for, and the case of each calls the collaborator of
\* its kind. A call of an advertised name is never answered as an unknown
\* tool and reaches its collaborator unless it carries no arguments; a call
\* of any other name reaches no collaborator and is answered as unknown.
C25_ListingEqualsSwitch ==
  /\ ListedTools(variant) = SwitchCases(variant)
  /\ \A n \in ListedTools(variant) : Collaborator(variant, n) = OwnKind(n)
  /\ \A i \in DOMAIN posts :
       Dispatched(i) =>
         IF posts[i].name \in ListedTools(variant)
         THEN /\ posts[i].envelope # DefaultBranch(posts[i].name)
              /\ posts[i].envelope # ErrorEnvelope(<<"TypeError">>) => posts[i].invoked
              /\ Collaborator(variant, posts[i].name) = OwnKind(posts[i].name)
         ELSE /\ ~posts[i].invoked
              /\ posts[i].envelope = DefaultBranch(posts[i].name)
              /\ Collaborator(variant, posts[i].name) = NoTool

\* The stateless variant has called the collaborator of a name only it
\* lists, and the call succeeded.
C25_Witness ==
  \E i \in DOMAIN posts :
    /\ variant = "stateless"
    /\ posts[i].name = "icd_code_lookup"
    /\ posts[i].invoked
    /\ posts[i].stage = "done"
    /\ posts[i].envelope = SuccessEnvelope

\* A variant that lists four names has answered a call of a name that has
\* a collaborator in tools, but no case, as unknown.
C25_UnlistedNotDispatched ==
  \E i \in DOMAIN posts :
    /\ variant # "stateless"
    /\ posts[i].name = "icd_code_lookup"
    /\ ~posts[i].invoked
    /\ posts[i].envelope = DefaultBranch("icd_code_lookup")

====
